---- MODULE Spec2Model ----
(***************************************************************************)
(* minimq MqttClient (src/src/mqtt_client.rs): construction, publish and   *)
(* poll over a caller supplied TCP stack.  Every public call is one        *)
(* action; the outcomes of the transport calls it makes and the bytes a    *)
(* read delivers are its inputs.  The packet reader, the wire codec and    *)
(* the session record live in other modules of the crate (de, ser,         *)
(* session_state); they are modelled from their description.               *)
(*                                                                         *)
(* Wire format of the model: a frame is <<type, n>> \o body with           *)
(* Len(body) = n (one byte remaining length); a byte takes the values of    *)
(* the four frame types, 0..3.                                             *)
(***************************************************************************)
EXTENDS Integers, Sequences, FiniteSets, TLC

\* ------------------------------------------------------------------ bounds
Cap == 4            \* capacity T of the accumulation and transmit buffers
MaxRead == 1        \* most bytes one transport read delivers
MaxData == 1
WideCap == 8
MaxFrames == 2        \* longest payload handed to publish()

\* ------------------------------------------------------- model constants
TConnAck == 0       \* frame type: connection acknowledgment
TPublish == 1       \* frame type: publish
TSubAck == 2        \* frame type: subscription acknowledgment
TConnect == 3       \* frame type: connect (outbound only)
InitPid == 1        \* packet identifier of a fresh session
ClientIdLen == 1    \* length of the client identifier

\* The values of a byte on the wire: the frame types, which also serve as
\* lengths, flags, reason codes and identifiers.
Byte == {TConnAck, TPublish, TSubAck, TConnect}

SeqsUpTo(S, n) == UNION {[1..k -> S] : k \in 0..n}

Chunks == SeqsUpTo(Byte, MaxRead)

VARIABLES
  slot,       \* socket: RefCell<Option<TcpSocket>>: "Some", "None", or
              \* "NoClient" while no client has been constructed
  connected,  \* state.connected
  pid,        \* state packet identifier
  buf,        \* packet_reader: the buffered bytes
  tx,         \* transmit_buffer: the frame encoded last
  call,       \* the public call made last: "none", "new", "publish", "poll"
  ret,        \* its result ("Ok", an Error variant, "panic", "hang")
  trace,      \* the transport and component calls it made, in order
  dispatched, \* the packets it passed to handle_packet, in order, each with
              \* the session state it met
  handled,    \* the payloads it handed to the application handler, in order
  stale,      \* a poll returned a protocol or framing error and the
              \* connection was not replaced since
  cap,        \* T: the capacity of the packet reader and the transmit buffer
  stream,     \* the bytes the broker sends on this connection
  wire,       \* those of them the client has not read yet
  origin,     \* the connected flag when the first of them arrives
  log,        \* the packets dispatched by the polls that read them, in order
  clean       \* each poll since returned Ok and none replaced the connection

vars == <<slot, connected, pid, buf, tx, call, ret, trace, dispatched, handled,
          stale, cap, stream, wire, origin, log, clean>>

\* The variables that follow one stream of the broker.
streamvars == <<cap, stream, wire, origin, log, clean>>

\* ------------------------------------------------------------ wire codec
\* serialize::connect_message: header, remaining length, client id.
connect_message(idlen) ==
  IF 2 + idlen > cap
    THEN [err |-> "Protocol.DataSize", frame |-> <<>>]
    ELSE [err |-> "Ok", frame |-> <<TConnect, idlen>> \o [i \in 1..idlen |-> 0]]

\* serialize::publish_message: header, remaining length, topic length,
\* topic, payload.
publish_message(topic, data) ==
  IF 3 + Len(topic) + Len(data) > cap
    THEN [err |-> "Protocol.DataSize", frame |-> <<>>]
    ELSE [err |-> "Ok",
          frame |-> <<TPublish, 1 + Len(topic) + Len(data), Len(topic)>>
                      \o topic \o data]

\* ---------------------------------------------------------- packet reader
\* Total length of the frame at the front of b, 0 while the prefix is not
\* fully present.
frame_length(b) == IF Len(b) < 2 THEN 0 ELSE 2 + b[2]

\* PacketReader::packet_available
packet_available(b) == Len(b) >= 2 /\ Len(b) >= frame_length(b)

Min(a, b) == IF a < b THEN a ELSE b

\* PacketReader::slurp: append what fits.
slurp(b, data) ==
  LET n == Min(Len(data), cap - Len(b)) IN
  IF n = 0 /\ Len(data) > 0 /\ Len(b) >= 2 /\ Len(b) > frame_length(b)
    THEN [err |-> TRUE, count |-> 0, buf |-> b]
    ELSE [err |-> FALSE, count |-> n, buf |-> b \o SubSeq(data, 1, n)]

\* PacketReader::pop_packet: drop the front frame, shift the rest down.
pop_packet(b) == SubSeq(b, frame_length(b) + 1, Len(b))

\* PacketReader::payload: the payload slice of the frame at the front.
payload(b) ==
  IF ~packet_available(b) \/ b[1] # TPublish \/ b[2] = 0 \/ b[3] > b[2] - 1
    THEN [err |-> "Protocol.PartialPacket", bytes |-> <<>>]
    ELSE [err |-> "Ok", bytes |-> SubSeq(b, 4 + b[3], frame_length(b))]

\* deserialize::parse_message on a reader holding a complete frame.
parse_message(b) ==
  LET t == b[1]
      n == b[2]
      body == SubSeq(b, 3, 2 + n)
  IN
  IF t = TConnAck THEN
    IF n # 2 THEN [err |-> "Protocol.MalformedPacket"]
    ELSE [err |-> "Ok", kind |-> "ConnAck",
          session_present |-> (body[1] % 2 = 1), reason_code |-> body[2]]
  ELSE IF t = TSubAck THEN
    IF n # 2 THEN [err |-> "Protocol.MalformedPacket"]
    ELSE [err |-> "Ok", kind |-> "SubAck",
          packet_identifier |-> body[1], reason_code |-> body[2]]
  ELSE IF t = TPublish THEN
    IF n = 0 \/ body[1] > n - 1 THEN [err |-> "Protocol.MalformedPacket"]
    ELSE [err |-> "Ok", kind |-> "Publish",
          topic |-> SubSeq(body, 2, 1 + body[1])]
  ELSE [err |-> "Protocol.UnsupportedPacket"]

\* ---------------------------------------------------------- session state
\* SessionState::increment_packet_identifier
increment_packet_identifier(p) == (p + 1) % Cardinality(Byte)


\* SessionState::reset on the session fields of s
state_reset(s) == [s EXCEPT !.connected = FALSE, !.pid = InitPid]

\* ----------------------------------------------------------------- client
\* The client's fields, as one record.
Client == [slot |-> slot, connected |-> connected, pid |-> pid, buf |-> buf,
           tx |-> tx]

\* The outcome of a call: the client's fields after it, its result and what
\* it did.
Outcome(s, r, tr, dp, hd) ==
  [slot |-> s.slot, connected |-> s.connected, pid |-> s.pid, buf |-> s.buf,
   tx |-> s.tx, ret |-> r, trace |-> tr, dispatched |-> dp, handled |-> hd]

\* What the transport does to one reconnection and its CONNECT write.
ResetOutcomes ==
  {"ok", "close.err", "open.err", "connect.err", "write.err", "write.short"}

WriteOutcomes == {"ok", "write.err", "write.short"}

\* MqttClient::write: the socket is taken, the write unwrapped, the socket
\* put back, the length compared.
write(s, what, w) ==
  IF s.slot # "Some"
    THEN [s |-> s, ret |-> "panic", trace |-> <<"unwrap.none">>]
  ELSE IF w = "write.err"
    THEN [s |-> [s EXCEPT !.slot = "None"], ret |-> "panic",
          trace |-> <<"write." \o what \o ".err">>]
  ELSE IF w = "write.short"
    THEN [s |-> s, ret |-> "WriteFail",
          trace |-> <<"write." \o what \o ".short">>]
  ELSE [s |-> s, ret |-> "Ok", trace |-> <<"write." \o what>>]

\* MqttClient::socket_is_connected: the socket is put back only when the
\* stack answers.
socket_is_connected(s, ic) ==
  IF s.slot # "Some"
    THEN [s |-> s, ret |-> "panic", trace |-> <<"unwrap.none">>]
  ELSE IF ic = "err"
    THEN [s |-> [s EXCEPT !.slot = "None"], ret |-> "Network",
          trace |-> <<"is_connected.err">>]
    ELSE [s |-> s, ret |-> "Ok", trace |-> <<"is_connected." \o ic>>]

\* MqttClient::connect_socket(true): close, open, connect; the slot is
\* filled again only after the connect.
connect_socket(s, rs) ==
  IF s.slot # "Some"
    THEN [s |-> s, ret |-> "panic", trace |-> <<"unwrap.none">>]
  ELSE IF rs = "close.err"
    THEN [s |-> [s EXCEPT !.slot = "None"], ret |-> "Network",
          trace |-> <<"close.err">>]
  ELSE IF rs = "open.err"
    THEN [s |-> [s EXCEPT !.slot = "None"], ret |-> "Network",
          trace |-> <<"close", "open.err">>]
  ELSE IF rs = "connect.err"
    THEN [s |-> [s EXCEPT !.slot = "None"], ret |-> "Network",
          trace |-> <<"close", "open", "connect.err">>]
  ELSE [s |-> [s EXCEPT !.slot = "Some"], ret |-> "Ok",
        trace |-> <<"close", "open", "connect">>]

\* reset without the reset of the packet reader.
reset_keeps_reader(s, rs) ==
  LET cs == connect_socket(s, rs) IN
  IF cs.ret # "Ok" THEN cs
  ELSE
    LET s1 == state_reset(cs.s)
        tr == cs.trace \o <<"state.reset", "reader.reset">>
        m == connect_message(ClientIdLen)
    IN
    IF m.err # "Ok" THEN [s |-> s1, ret |-> m.err, trace |-> tr]
    ELSE
      LET w == write([s1 EXCEPT !.tx = m.frame], "connect",
                     IF rs \in WriteOutcomes THEN rs ELSE "ok")
      IN [s |-> w.s, ret |-> w.ret, trace |-> tr \o w.trace]

\* MqttClient::reset
reset(s, rs) ==
  LET cs == connect_socket(s, rs) IN
  IF cs.ret # "Ok" THEN cs
  ELSE
    LET s1 == [state_reset(cs.s) EXCEPT !.buf = <<>>]
        tr == cs.trace \o <<"state.reset", "reader.reset">>
        m == connect_message(ClientIdLen)
    IN
    IF m.err # "Ok" THEN [s |-> s1, ret |-> m.err, trace |-> tr]
    ELSE
      LET w == write([s1 EXCEPT !.tx = m.frame], "connect",
                     IF rs \in WriteOutcomes THEN rs ELSE "ok")
      IN [s |-> w.s, ret |-> w.ret, trace |-> tr \o w.trace]

\* The result of a dispatch: the session fields after it, its result, and
\* the payload handed to the handler (if any).
Dispatch(c, p, r, hd) ==
  [connected |-> c, pid |-> p, ret |-> r, handled |-> hd]

\* handle_connack with the reason code ignored.
handle_connack_ignores_reason(pkt, c, p) ==
  IF pkt.session_present THEN Dispatch(c, p, "Failed", <<>>)
  ELSE Dispatch(TRUE, InitPid, "Ok", <<>>)

\* handle_connack with a resumed session accepted.
handle_connack_accepts_session(pkt, c, p) ==
  IF pkt.reason_code # 0 THEN Dispatch(c, p, "Failed", <<>>)
  ELSE Dispatch(TRUE, InitPid, "Ok", <<>>)

\* MqttClient::handle_packet, a ConnAck while not connected.
handle_connack(pkt, c, p) ==
  IF pkt.reason_code # 0 THEN Dispatch(c, p, "Failed", <<>>)
  ELSE IF pkt.session_present THEN Dispatch(c, p, "Failed", <<>>)
  ELSE Dispatch(TRUE, InitPid, "Ok", <<>>)

\* MqttClient::handle_packet, a Publish while connected: the payload is
\* taken from the packet reader b as it is at the time of the call.
handle_publish(pkt, c, p, b) ==
  LET pl == payload(b) IN
  IF pl.err # "Ok" THEN Dispatch(c, p, pl.err, <<>>)
  ELSE Dispatch(c, p, "Ok", <<pl.bytes>>)

\* handle_suback without the comparison of the identifiers.
handle_suback_any_identifier(pkt, c, p) ==
  IF pkt.reason_code # 0 THEN Dispatch(c, p, "Failed", <<>>)
  ELSE Dispatch(c, increment_packet_identifier(p), "Ok", <<>>)

\* handle_suback with the reason code ignored.
handle_suback_ignores_reason(pkt, c, p) ==
  IF pkt.packet_identifier # p THEN Dispatch(c, p, "Invalid", <<>>)
  ELSE Dispatch(c, increment_packet_identifier(p), "Ok", <<>>)

\* MqttClient::handle_packet, a SubAck while connected.
handle_suback(pkt, c, p) ==
  IF pkt.packet_identifier # p THEN Dispatch(c, p, "Invalid", <<>>)
  ELSE IF pkt.reason_code # 0 THEN Dispatch(c, p, "Failed", <<>>)
  ELSE Dispatch(c, increment_packet_identifier(p), "Ok", <<>>)

\* handle_packet with a ConnAck handled again once connected.
handle_packet_repeats_handshake(pkt, c, p, b) ==
  IF pkt.kind = "ConnAck" THEN handle_connack(pkt, c, p)
  ELSE IF ~c THEN Dispatch(c, p, "Protocol.Invalid", <<>>)
  ELSE IF pkt.kind = "Publish" THEN handle_publish(pkt, c, p, b)
  ELSE IF pkt.kind = "SubAck" THEN handle_suback(pkt, c, p)
  ELSE Dispatch(c, p, "Invalid", <<>>)

\* handle_packet without the test of the connected flag for a Publish.
handle_packet_forwards_early(pkt, c, p, b) ==
  IF pkt.kind = "Publish" THEN handle_publish(pkt, c, p, b)
  ELSE IF ~c THEN
    IF pkt.kind = "ConnAck" THEN handle_connack(pkt, c, p)
    ELSE Dispatch(c, p, "Protocol.Invalid", <<>>)
  ELSE IF pkt.kind = "SubAck" THEN handle_suback(pkt, c, p)
  ELSE Dispatch(c, p, "Invalid", <<>>)

\* MqttClient::handle_packet on session fields c, p.  b is the packet reader
\* at the time of the call.
handle_packet(pkt, c, p, b) ==
  IF ~c THEN
    IF pkt.kind = "ConnAck" THEN handle_connack(pkt, c, p)
    ELSE Dispatch(c, p, "Protocol.Invalid", <<>>)
  ELSE IF pkt.kind = "Publish" THEN handle_publish(pkt, c, p, b)
  ELSE IF pkt.kind = "SubAck" THEN handle_suback(pkt, c, p)
  ELSE Dispatch(c, p, "Invalid", <<>>)

\* MqttClient::read: the socket is taken, the read unwrapped, the socket put
\* back.
read(s, rd) ==
  IF s.slot # "Some"
    THEN [s |-> s, ret |-> "panic", trace |-> <<"unwrap.none">>]
  ELSE IF rd = "err"
    THEN [s |-> [s EXCEPT !.slot = "None"], ret |-> "panic",
          trace |-> <<"read.err">>]
  ELSE [s |-> s, ret |-> "Ok", trace |-> <<"read">>]

\* The while loop of MqttClient::poll over the bytes of one read: b, c, p
\* are the reader and the session on entry, data the bytes not yet
\* processed.  ret "slurp.err" asks the caller for the reset.
RECURSIVE poll_loop(_, _, _, _, _, _, _)
poll_loop(b, c, p, data, tr, dp, hd) ==
  IF data = <<>>
    THEN [buf |-> b, connected |-> c, pid |-> p, ret |-> "Ok", trace |-> tr,
          dispatched |-> dp, handled |-> hd]
  ELSE
    LET sl == slurp(b, data) IN
    IF sl.err
      THEN [buf |-> b, connected |-> c, pid |-> p, ret |-> "slurp.err",
            trace |-> tr \o <<"slurp.err">>, dispatched |-> dp,
            handled |-> hd]
    ELSE
      LET b1 == sl.buf
          rest == SubSeq(data, sl.count + 1, Len(data))
          tr1 == tr \o <<"slurp">>
      IN
      IF packet_available(b1) THEN
        LET d == parse_message(b1) IN
        IF d.err # "Ok"
          THEN [buf |-> b1, connected |-> c, pid |-> p, ret |-> d.err,
                trace |-> tr1 \o <<"decode.err">>, dispatched |-> dp,
                handled |-> hd]
        ELSE
          LET b2 == pop_packet(b1)
              h == handle_packet(d, c, p, b2)
              tr2 == tr1 \o <<"decode", "pop", "dispatch">>
                         \o (IF h.handled # <<>> THEN <<"handler">> ELSE <<>>)
              dp2 == Append(dp, [pkt |-> d, c |-> c, p |-> p,
                               frame |-> SubSeq(b1, 1, frame_length(b1))])
          IN
          IF h.ret # "Ok"
            THEN [buf |-> b2, connected |-> h.connected, pid |-> h.pid,
                  ret |-> h.ret, trace |-> tr2, dispatched |-> dp2,
                  handled |-> hd \o h.handled]
            ELSE poll_loop(b2, h.connected, h.pid, rest, tr2, dp2,
                           hd \o h.handled)
      ELSE IF sl.count = 0
        THEN [buf |-> b1, connected |-> c, pid |-> p, ret |-> "hang",
              trace |-> tr1, dispatched |-> dp, handled |-> hd]
        ELSE poll_loop(b1, c, p, rest, tr1, dp, hd)

\* on_slurp_error without the reset.
on_slurp_error_returns(s, L, rs) ==
  Outcome(s, "Disconnected", L.trace, L.dispatched, L.handled)

\* MqttClient::poll, the Err arm of the slurp: reset, then Disconnected.
\* s is the client and L the loop's record when the reader refuses the bytes.
on_slurp_error(s, L, rs) ==
  LET r == reset(s, rs) IN
  Outcome(r.s, IF r.ret = "Ok" THEN "Disconnected" ELSE r.ret,
          L.trace \o r.trace, L.dispatched, L.handled)

\* ends_in_reset with the errors of a dispatch included.
ends_in_reset_on_failed(r) == r \in {"slurp.err", "Failed"}

\* MqttClient::poll: of the ways the loop ends, the one that resets the
\* connection before poll returns.
ends_in_reset(r) == r = "slurp.err"

\* MqttClient::poll with the transport's answers: ic to is_connected, rd
\* and data to the read, rs to a reconnection.
poll(s, ic, rd, data, rs) ==
  LET q == socket_is_connected(s, ic) IN
  IF q.ret # "Ok" THEN Outcome(q.s, q.ret, q.trace, <<>>, <<>>)
  ELSE IF ic = "false" THEN
    LET r == reset(s, rs) IN
    Outcome(r.s, r.ret, q.trace \o r.trace, <<>>, <<>>)
  ELSE
    LET rr == read(s, rd) IN
    IF rr.ret # "Ok"
      THEN Outcome(rr.s, rr.ret, q.trace \o rr.trace, <<>>, <<>>)
    ELSE
      LET L == poll_loop(s.buf, s.connected, s.pid, data,
                         q.trace \o rr.trace, <<>>, <<>>)
          s1 == [s EXCEPT !.buf = L.buf, !.connected = L.connected,
                          !.pid = L.pid]
      IN
      IF ends_in_reset(L.ret) THEN on_slurp_error(s1, L, rs)
      ELSE Outcome(s1, L.ret, L.trace, L.dispatched, L.handled)

\* publish made to depend on the session's connected flag.
publish_needs_session(s, ic, topic, data, w) ==
  LET q == socket_is_connected(s, ic) IN
  IF q.ret # "Ok" THEN Outcome(q.s, q.ret, q.trace, <<>>, <<>>)
  ELSE IF ic = "false" \/ ~s.connected
    THEN Outcome(s, "Ok", q.trace, <<>>, <<>>)
  ELSE
    LET m == publish_message(topic, data) IN
    IF m.err # "Ok" THEN Outcome(s, m.err, q.trace, <<>>, <<>>)
    ELSE
      LET r == write([s EXCEPT !.tx = m.frame], "publish", w) IN
      Outcome(r.s, r.ret, q.trace \o r.trace, <<>>, <<>>)

\* publish with the packet reader cleared along with the transmit buffer.
publish_clears_reader(s, ic, topic, data, w) ==
  LET q == socket_is_connected(s, ic) IN
  IF q.ret # "Ok" THEN Outcome(q.s, q.ret, q.trace, <<>>, <<>>)
  ELSE IF ic = "false" THEN Outcome(s, "Ok", q.trace, <<>>, <<>>)
  ELSE
    LET m == publish_message(topic, data) IN
    IF m.err # "Ok" THEN Outcome(s, m.err, q.trace, <<>>, <<>>)
    ELSE
      LET r == write([s EXCEPT !.tx = m.frame, !.buf = <<>>], "publish", w) IN
      Outcome(r.s, r.ret, q.trace \o r.trace, <<>>, <<>>)

\* MqttClient::publish
publish(s, ic, topic, data, w) ==
  LET q == socket_is_connected(s, ic) IN
  IF q.ret # "Ok" THEN Outcome(q.s, q.ret, q.trace, <<>>, <<>>)
  ELSE IF ic = "false" THEN Outcome(s, "Ok", q.trace, <<>>, <<>>)
  ELSE
    LET m == publish_message(topic, data) IN
    IF m.err # "Ok" THEN Outcome(s, m.err, q.trace, <<>>, <<>>)
    ELSE
      LET r == write([s EXCEPT !.tx = m.frame], "publish", w) IN
      Outcome(r.s, r.ret, q.trace \o r.trace, <<>>, <<>>)

\* The fields before a client exists.
NoClient == [slot |-> "NoClient", connected |-> FALSE, pid |-> InitPid,
             buf |-> <<>>, tx |-> <<>>]

\* MqttClient::new: open, connect, then reset on the fresh client.  On an
\* error no client is returned.
new(o, rs) ==
  IF o = "open.err" THEN Outcome(NoClient, "Network", <<"open.err">>, <<>>, <<>>)
  ELSE IF o = "connect.err"
    THEN Outcome(NoClient, "Network", <<"open", "connect.err">>, <<>>, <<>>)
  ELSE
    LET r == reset([NoClient EXCEPT !.slot = "Some"], rs) IN
    Outcome(IF r.ret = "Ok" THEN r.s ELSE NoClient, r.ret,
            <<"open", "connect">> \o r.trace, <<>>, <<>>)

Range(f) == {f[i] : i \in DOMAIN f}

\* The results of poll that report a protocol or framing error.
IsProtocolError(r) ==
  r \notin {"Ok", "Network", "WriteFail", "panic", "hang"}

\* The call named name ends with outcome o.
Apply(name, o) ==
  /\ slot' = o.slot
  /\ connected' = o.connected
  /\ pid' = o.pid
  /\ buf' = o.buf
  /\ tx' = o.tx
  /\ call' = name
  /\ ret' = o.ret
  /\ trace' = o.trace
  /\ dispatched' = o.dispatched
  /\ handled' = o.handled
  /\ stale' = IF "connect" \in Range(o.trace) THEN FALSE
              ELSE IF name = "poll" /\ IsProtocolError(o.ret) THEN TRUE
              ELSE stale

\* The process has not aborted and is not stuck in a call.
Running == ret \notin {"panic", "hang"}

Init ==
  /\ slot = "NoClient"
  /\ connected = FALSE
  /\ pid = InitPid
  /\ buf = <<>>
  /\ tx = <<>>
  /\ call = "none"
  /\ ret = "Ok"
  /\ trace = <<>>
  /\ dispatched = <<>>
  /\ handled = <<>>
  /\ stale = FALSE
  /\ cap = Cap
  /\ stream = <<>>
  /\ wire = <<>>
  /\ origin = FALSE
  /\ log = <<>>
  /\ clean = TRUE

New ==
  /\ Running
  /\ slot = "NoClient"
  /\ \E o \in {"ok", "open.err", "connect.err"} :
       IF o = "ok"
         THEN \E rs \in ResetOutcomes : Apply("new", new(o, rs))
         ELSE Apply("new", new(o, "ok"))
  /\ UNCHANGED streamvars

\* The messages the application publishes: one topic of one byte, payloads
\* of up to MaxData bytes.
Topics == {<<0>>}
Payloads == SeqsUpTo({0}, MaxData)

Publish ==
  /\ Running
  /\ slot # "NoClient"
  /\ \E ic \in {"true", "false", "err"} :
       IF ic = "true"
         THEN \E t \in Topics, d \in Payloads :
                IF publish_message(t, d).err = "Ok"
                  THEN \E w \in WriteOutcomes :
                         Apply("publish", publish(Client, ic, t, d, w))
                  ELSE Apply("publish", publish(Client, ic, t, d, "ok"))
         ELSE Apply("publish", publish(Client, ic, <<>>, <<>>, "ok"))
  /\ UNCHANGED streamvars

Poll ==
  /\ Running
  /\ slot # "NoClient"
  /\ \E ic \in {"true", "false", "err"} :
       IF ic = "err" THEN Apply("poll", poll(Client, ic, "ok", <<>>, "ok"))
       ELSE IF ic = "false"
         THEN \E rs \in ResetOutcomes :
                Apply("poll", poll(Client, ic, "ok", <<>>, rs))
       ELSE \/ Apply("poll", poll(Client, ic, "err", <<>>, "ok"))
            \/ \E data \in Chunks :
                 IF poll(Client, ic, "ok", data, "ok").ret = "Disconnected"
                   THEN \E rs \in ResetOutcomes :
                          Apply("poll", poll(Client, ic, "ok", data, rs))
                   ELSE Apply("poll", poll(Client, ic, "ok", data, "ok"))
  /\ UNCHANGED streamvars

Next == New \/ Publish \/ Poll

Spec == Init /\ [][Next]_vars

\* ------------------------------------------------- one stream of the broker
\* The frames of the broker, each well formed.
ConnAckFrame(flags, reason) == <<TConnAck, 2, flags, reason>>

SubAckFrame(id, reason) == <<TSubAck, 2, id, reason>>

PublishFrame(topic, data) ==
  <<TPublish, 1 + Len(topic) + Len(data), Len(topic)>> \o topic \o data

Frames ==
  {ConnAckFrame(f, r) : f \in {0, 1}, r \in {0, 1}}
    \cup {SubAckFrame(i, r) : i \in {InitPid, InitPid + 1}, r \in {0, 1}}
    \cup {PublishFrame(<<>>, d) : d \in {<<>>, <<2>>, <<3>>}}

RECURSIVE Flatten(_)
Flatten(fs) == IF fs = <<>> THEN <<>> ELSE Head(fs) \o Flatten(Tail(fs))

\* The streams of up to MaxFrames frames.
Streams == {Flatten(fs) : fs \in SeqsUpTo(Frames, MaxFrames)}

\* The client new() returns when the transport works.
AfterNew == new("ok", "ok")

\* That client after a poll that read the acknowledgment of its CONNECT.
AfterAck ==
  poll([slot |-> AfterNew.slot, connected |-> AfterNew.connected,
        pid |-> AfterNew.pid, buf |-> AfterNew.buf, tx |-> AfterNew.tx],
       "true", "ok", ConnAckFrame(0, 0), "ok")

\* A client of reader capacity WideCap, awaiting the acknowledgment or
\* connected, and a stream the broker then sends.
InitStream ==
  /\ cap = WideCap
  /\ origin \in BOOLEAN
  /\ LET o == IF origin THEN AfterAck ELSE AfterNew IN
     /\ slot = o.slot
     /\ connected = o.connected
     /\ pid = o.pid
     /\ buf = o.buf
     /\ tx = o.tx
     /\ call = IF origin THEN "poll" ELSE "new"
     /\ ret = o.ret
     /\ trace = o.trace
     /\ dispatched = o.dispatched
     /\ handled = o.handled
  /\ stale = FALSE
  /\ stream \in Streams
  /\ wire = stream
  /\ log = <<>>
  /\ clean = TRUE

\* poll() on a working transport whose read returns the next k bytes of
\* the stream.
Deliver ==
  /\ Running
  /\ wire # <<>>
  /\ \E k \in 1..Len(wire) :
       /\ Apply("poll", poll(Client, "true", "ok", SubSeq(wire, 1, k), "ok"))
       /\ wire' = SubSeq(wire, k + 1, Len(wire))
  /\ log' = log \o dispatched'
  /\ clean' = (clean /\ ret' = "Ok")
  /\ UNCHANGED <<cap, stream, origin>>

\* poll() on a working transport whose read returns no byte.
Idle ==
  /\ Running
  /\ Apply("poll", poll(Client, "true", "ok", <<>>, "ok"))
  /\ clean' = (clean /\ ret' = "Ok")
  /\ UNCHANGED <<cap, stream, wire, origin, log>>

\* poll() when the transport reports the connection lost and the
\* reconnection succeeds.
Reconnect ==
  /\ Running
  /\ Apply("poll", poll(Client, "false", "ok", <<>>, "ok"))
  /\ clean' = FALSE
  /\ UNCHANGED <<cap, stream, wire, origin, log>>

NextStream == Deliver \/ Idle \/ Reconnect

SpecStream == InitStream /\ [][NextStream]_vars


\* ----------------------------------------------------------------- claims
Last(q) == q[Len(q)]

\* The steps of one complete reconnection, in the order reset() makes them.
ReconnectSteps ==
  <<"close", "open", "connect", "state.reset", "reader.reset",
    "write.connect">>

\* tr holds a complete reconnection.
HasReconnect(tr) ==
  \E i \in 1..Len(tr) :
    /\ i + 5 <= Len(tr)
    /\ SubSeq(tr, i, i + 5) = ReconnectSteps

\* tr holds the start of a reconnection.
ReconnectAttempted(tr) == Range(tr) \cap {"close", "close.err"} # {}

\* The transport calls that failed.
TransportFailures ==
  {"is_connected.err", "read.err", "close.err", "open.err", "connect.err",
   "write.connect.err", "write.publish.err"}

\* The last poll met an error while it processed the bytes it read.
ProcessingError ==
  /\ call = "poll"
  /\ \/ Range(trace) \cap {"slurp.err", "decode.err"} # {}
     \/ dispatched # <<>> /\ Last(trace) = "dispatch" /\ ret # "Ok"

After(tr, e) ==
  LET i == CHOOSE k \in 1..Len(tr) : tr[k] = e IN SubSeq(tr, i + 1, Len(tr))

C2_NoDispatchOnStaleConnection ==
  [][stale => Range(trace') \cap {"decode", "decode.err", "dispatch"} = {}]_vars

\* The last poll dispatched a connection acknowledgment with a non-zero
\* reason code to a session that was not connected.
RefusedAck ==
  /\ call = "poll"
  /\ dispatched # <<>>
  /\ Last(dispatched).pkt.kind = "ConnAck"
  /\ Last(dispatched).pkt.reason_code # 0
  /\ ~Last(dispatched).c

\* The transport answered is_connected in the last call.
TransportAnswered ==
  trace # <<>> /\ trace[1] \in {"is_connected.true", "is_connected.false"}

TransportFailed ==
  /\ call \in {"publish", "poll"}
  /\ trace # <<>>
  /\ Last(trace) \in TransportFailures

\* C4 as stated: a failed transport call ends the publish or poll with a
\* network error, and the poll that follows starts a reconnection.
C4_TransportErrorsWrapped ==
  [][/\ TransportFailed' => ret' = "Network"
     /\ (TransportFailed /\ call' = "poll") => ReconnectAttempted(trace')]_vars

\* C5 as stated: no call aborts.
C5_NoAbort == ret # "panic"

\* The name of the step a reconnection event belongs to.
Stem(e) ==
  CASE e \in {"close", "close.err"} -> "close"
    [] e \in {"open", "open.err"} -> "open"
    [] e \in {"connect", "connect.err"} -> "connect"
    [] e \in {"write.connect", "write.connect.err", "write.connect.short"}
         -> "write.connect"
    [] OTHER -> e

\* C6: a poll that finds the transport not connected makes the steps of one
\* reconnection in order (close, open, connect, session reset, reader reset,
\* one CONNECT write) and no read; it goes on to the next step only when the
\* one before succeeded; when every step succeeds it returns Ok with the
\* session not connected and the reader empty.
C6_ReconnectOnDisconnect ==
  (call = "poll" /\ trace # <<>> /\ trace[1] = "is_connected.false") =>
    LET t == Tail(trace) IN
    /\ Len(t) \in 1..Len(ReconnectSteps)
    /\ \A i \in DOMAIN t : Stem(t[i]) = ReconnectSteps[i]
    /\ \A i \in DOMAIN t : i < Len(t) => t[i] = ReconnectSteps[i]
    /\ Range(trace) \cap {"read", "read.err"} = {}
    /\ ret = "Ok" <=> t = ReconnectSteps
    /\ t = ReconnectSteps =>
         ~connected /\ buf = <<>> /\ slot = "Some" /\ tx[1] = TConnect
    /\ Len(t) >= 5 => ~connected /\ buf = <<>>

\* C6 witness: a poll reconnected and returned Ok.
C6_Witness ==
  /\ call = "poll"
  /\ trace = <<"is_connected.false">> \o ReconnectSteps
  /\ ret = "Ok"

\* dp holds a connection acknowledgment with reason code zero and
\* session-present false, dispatched to a session that was not connected.
GoodAck(dp) ==
  \E i \in DOMAIN dp :
    /\ dp[i].pkt.kind = "ConnAck"
    /\ dp[i].pkt.reason_code = 0
    /\ ~dp[i].pkt.session_present
    /\ ~dp[i].c

\* C7: the connected flag is true after a call only if that call dispatched
\* a connection acknowledgment with reason code zero and session-present
\* false, or the flag was true before and the call did not reset the
\* session; every session reset of a reconnection leaves it false.
C7_ConnectedOnlyAfterGoodAck ==
  [][/\ connected' =>
          \/ connected /\ "state.reset" \notin Range(trace')
          \/ GoodAck(dispatched')
     /\ "state.reset" \in Range(trace') => ~connected']_vars

\* C7 witness: a poll has just made the session connected.
C7_Witness == connected /\ call = "poll" /\ GoodAck(dispatched)

\* C8: a connection acknowledgment with session-present true, dispatched
\* while the session awaits it, ends the poll with Failed whatever its
\* reason code, and the session stays not connected.
C8_SessionPresentFails ==
  \A i \in DOMAIN dispatched :
    (/\ dispatched[i].pkt.kind = "ConnAck"
     /\ dispatched[i].pkt.session_present
     /\ ~dispatched[i].c)
      => i = Len(dispatched) /\ ret = "Failed" /\ ~connected

\* C8 witness: a session-present acknowledgment with reason code zero was
\* dispatched to a session awaiting it.
C8_Witness ==
  /\ call = "poll"
  /\ dispatched # <<>>
  /\ Last(dispatched).pkt.kind = "ConnAck"
  /\ Last(dispatched).pkt.session_present
  /\ Last(dispatched).pkt.reason_code = 0
  /\ ~Last(dispatched).c

\* C9: while connected, a subscription acknowledgment whose identifier is
\* not the session's ends the poll with Invalid and leaves the identifier
\* and the connected flag as they were.
C9_SubAckMismatchInvalid ==
  \A i \in DOMAIN dispatched :
    (/\ dispatched[i].pkt.kind = "SubAck"
     /\ dispatched[i].c
     /\ dispatched[i].pkt.packet_identifier # dispatched[i].p)
      => /\ i = Len(dispatched)
         /\ ret = "Invalid"
         /\ pid = dispatched[i].p
         /\ connected

\* C9 witness: a mismatched subscription acknowledgment with reason code
\* zero was dispatched to a connected session.
C9_Witness ==
  /\ call = "poll"
  /\ dispatched # <<>>
  /\ Last(dispatched).pkt.kind = "SubAck"
  /\ Last(dispatched).c
  /\ Last(dispatched).pkt.packet_identifier # Last(dispatched).p
  /\ Last(dispatched).pkt.reason_code = 0

\* C10: publish returns Ok and writes nothing when the transport reports
\* not-connected; when it reports connected and the message fits the
\* transmit buffer, publish encodes it and makes exactly one write of a
\* publish frame, whatever the session's connected flag.
C10_PublishFollowsTransport ==
  (call = "publish" /\ TransportAnswered) =>
    /\ trace[1] = "is_connected.false" =>
         ret = "Ok" /\ trace = <<"is_connected.false">>
    /\ (trace[1] = "is_connected.true" /\ ret # "Protocol.DataSize") =>
         /\ Len(trace) = 2
         /\ trace[2] \in {"write.publish", "write.publish.short",
                          "write.publish.err"}
         /\ tx[1] = TPublish
         /\ ret = "Ok" <=> trace[2] = "write.publish"
    /\ ret = "Protocol.DataSize" => trace = <<"is_connected.true">>

\* C10 witness: a publish frame was written while the acknowledgment of the
\* handshake was still awaited.
C10_Witness ==
  /\ call = "publish"
  /\ ~connected
  /\ trace = <<"is_connected.true", "write.publish">>
  /\ ret = "Ok"


\* C11 as stated: a poll that returns Ok leaves no complete frame in the
\* packet reader.
C11_SuccessLeavesNoFrame ==
  (call = "poll" /\ ret = "Ok") => ~packet_available(buf)

\* The frames of the dispatched packets dp, in order.
FramesOf(dp) == [i \in DOMAIN dp |-> dp[i].frame]

\* The client the stream meets.
StartClient ==
  LET o == IF origin THEN AfterAck ELSE AfterNew IN
  [slot |-> o.slot, connected |-> o.connected, pid |-> o.pid, buf |-> o.buf,
   tx |-> o.tx]

\* The one poll whose read returns the whole stream.
Whole == poll(StartClient, "true", "ok", stream, "ok")

\* C12 as stated, for the streams every poll accepts: once the stream has
\* been read in chunks, the frames dispatched are those one poll dispatches
\* that reads the stream as one block.
C12_ChunkingKeepsDispatch ==
  (wire = <<>> /\ stream # <<>> /\ clean /\ Whole.ret = "Ok") =>
    FramesOf(log) = FramesOf(Whole.dispatched)

\* e is a publish dispatched to a connected session.
IsForwarded(e) == e.c /\ e.pkt.kind = "Publish"

\* C13 as stated: a poll hands the handler one payload for each publish it
\* dispatches to a connected session, the payload of that frame, and pops
\* a frame only after its dispatch.
C13_HandlerGetsFramePayloadBeforePop ==
  LET pubs == SelectSeq(dispatched, IsForwarded) IN
  (call = "poll" /\ pubs # <<>>) =>
    /\ Len(handled) = Len(pubs)
    /\ \A i \in DOMAIN pubs :
         i \in DOMAIN handled /\ handled[i] = payload(pubs[i].frame).bytes
    /\ \A i \in DOMAIN trace :
         trace[i] = "pop" => i > 1 /\ trace[i - 1] \in {"dispatch", "handler"}

\* C14 as stated: whenever construct, publish or poll has returned, the
\* socket slot of the client is occupied.
C14_SlotOccupiedAtReturn ==
  (Running /\ slot # "NoClient") => slot = "Some"

\* C15: a packet of an unexpected kind ends the poll with an error and
\* leaves the session as it was: while not connected anything but a ConnAck
\* is Protocol.Invalid and the flag stays false; while connected anything
\* but a Publish or a SubAck (a ConnAck included) is Invalid and the flag
\* and the identifier stay as they were.
C15_UnexpectedKindRejected ==
  \A i \in DOMAIN dispatched :
    LET e == dispatched[i] IN
    /\ (~e.c /\ e.pkt.kind # "ConnAck") =>
         /\ i = Len(dispatched)
         /\ ret = "Protocol.Invalid"
         /\ ~connected
         /\ pid = e.p
    /\ (e.c /\ e.pkt.kind \notin {"Publish", "SubAck"}) =>
         /\ i = Len(dispatched)
         /\ ret = "Invalid"
         /\ connected
         /\ pid = e.p

\* C15 witness: a connected session was handed a second, well-formed and
\* successful ConnAck.
C15_Witness ==
  /\ call = "poll"
  /\ dispatched # <<>>
  /\ Last(dispatched).c
  /\ Last(dispatched).pkt.kind = "ConnAck"
  /\ Last(dispatched).pkt.reason_code = 0
  /\ ~Last(dispatched).pkt.session_present

\* dp holds a SubAck with the session's identifier and reason code zero,
\* dispatched to a connected session.
GoodSubAck(dp) ==
  \E i \in DOMAIN dp :
    /\ dp[i].pkt.kind = "SubAck"
    /\ dp[i].c
    /\ dp[i].pkt.packet_identifier = dp[i].p
    /\ dp[i].pkt.reason_code = 0

\* C16: a call leaves the packet identifier as it was unless it dispatched
\* a SubAck with the matching identifier and reason code zero to a connected
\* session, or reset the session (a reconnection, or the reset made when
\* the ConnAck is accepted); a matching SubAck with a non-zero reason code
\* ends the poll with Failed and the identifier it met; publish never
\* changes it.
C16_IdentifierAdvancesOnGoodSubAck ==
  [][/\ pid' # pid =>
          \/ GoodSubAck(dispatched')
          \/ "state.reset" \in Range(trace')
          \/ GoodAck(dispatched')
     /\ call' = "publish" => pid' = pid
     /\ \A i \in DOMAIN dispatched' :
          LET e == dispatched'[i] IN
          /\ (e.pkt.kind = "SubAck" /\ e.c
                /\ e.pkt.packet_identifier = e.p /\ e.pkt.reason_code # 0) =>
               i = Len(dispatched') /\ ret' = "Failed" /\ pid' = e.p
          /\ (e.pkt.kind = "SubAck" /\ e.c
                /\ e.pkt.packet_identifier = e.p /\ e.pkt.reason_code = 0
                /\ i = Len(dispatched') /\ "state.reset" \notin Range(trace')) =>
               pid' = increment_packet_identifier(e.p)
          /\ (i = Len(dispatched') /\ ret' \notin {"Ok", "Disconnected",
                "Network", "WriteFail", "panic", "hang"}) =>
               pid' = e.p]_vars

\* C16 witness: a matching SubAck with a non-zero reason code was dispatched
\* to a connected session.
C16_Witness ==
  /\ call = "poll"
  /\ dispatched # <<>>
  /\ Last(dispatched).pkt.kind = "SubAck"
  /\ Last(dispatched).c
  /\ Last(dispatched).pkt.packet_identifier = Last(dispatched).p
  /\ Last(dispatched).pkt.reason_code # 0
  /\ ret = "Failed"

\* C17 as stated: every poll returns once its transport calls have
\* returned.
C17_PollTerminates == ret # "hang"

\* C18 as stated: when the reader rejects the bytes of a read, poll either
\* completes the reconnection and returns Disconnected with the session not
\* connected and the reader empty, or returns the error of the reconnection
\* that failed.
C18_AppendErrorOutcome ==
  (call = "poll" /\ "slurp.err" \in Range(trace)) =>
    LET t == After(trace, "slurp.err") IN
    \/ /\ t = ReconnectSteps
       /\ ret = "Disconnected"
       /\ ~connected
       /\ buf = <<>>
    \/ /\ t # ReconnectSteps
       /\ ReconnectAttempted(t)
       /\ ret \in {"Network", "WriteFail"}

\* C19: the handler is invoked only for a publish dispatched to a connected
\* session; a publish dispatched while the session awaits the
\* acknowledgment ends the poll with Protocol.Invalid, the flag still false.
C19_NoHandlerBeforeConnected ==
  /\ Len(handled) <= Len(SelectSeq(dispatched, IsForwarded))
  /\ \A i \in DOMAIN dispatched :
       LET e == dispatched[i] IN
       (~e.c /\ e.pkt.kind = "Publish") =>
         /\ i = Len(dispatched)
         /\ ret = "Protocol.Invalid"
         /\ ~connected

\* C19 witness: after a reconnection, a publish arrived before the
\* acknowledgment and the handler was not invoked.
C19_Witness ==
  /\ call = "poll"
  /\ origin
  /\ ~clean
  /\ dispatched # <<>>
  /\ ~Last(dispatched).c
  /\ Last(dispatched).pkt.kind = "Publish"
  /\ ret = "Protocol.Invalid"
  /\ handled = <<>>

\* C20: publish leaves the connected flag, the packet identifier and the
\* bytes buffered in the packet reader as they were, whatever its result.
C20_PublishKeepsSessionAndReader ==
  [][call' = "publish" =>
       connected' = connected /\ pid' = pid /\ buf' = buf]_vars

\* C20 witness: a publish frame was written while the reader held a part of
\* a frame.
C20_Witness ==
  /\ call = "publish"
  /\ buf # <<>>
  /\ ~packet_available(buf)
  /\ trace = <<"is_connected.true", "write.publish">>
  /\ tx[1] = TPublish

====
